---------------------------- MODULE Spec2Model ----------------------------
(***************************************************************************)
(* A model of the sinpi / cospi / sincospi routines (src/src/triangle.rs)  *)
(* and of the Horner evaluator eval_poly (src/src/utils.rs).               *)
(*                                                                         *)
(* An f64 is a record [k, s, m]:                                           *)
(*   k = "nan"                      a NaN (sign and payload not modelled)  *)
(*   k = "inf", s                   s * infinity                           *)
(*   k = "fin", s, m                s * m / SCALE, a fixed-point number    *)
(*                                  with eight decimal places; s is kept   *)
(*                                  for m = 0, so that -0.0 differs from   *)
(*                                  +0.0                                   *)
(*   k = "big", s, m                s * 2^m, a power of two with           *)
(*                                  60 <= m <= F64_MAX_EXP: an integer     *)
(*                                  that absorbs any "fin" addend          *)
(*   k = "max", s                   s * f64::MAX                           *)
(* Arithmetic on "fin" values rounds to the nearest multiple of 1/SCALE    *)
(* (ties away from zero), so every result is within a few 1e-8 of the      *)
(* result of the f64 operation; arithmetic on the other kinds follows      *)
(* IEEE-754.                                                               *)
(***************************************************************************)
EXTENDS Integers, Sequences, FiniteSets

VARIABLES fn, arg, arr, ret

vars == <<fn, arg, arr, ret>>

--------------------------------------------------------------------------
(* The number representation *)

SCALE == 10^8

SPLIT == 10^4

\* the largest binary exponent of a finite f64: f64::MAX < 2^(F64_MAX_EXP+1)
F64_MAX_EXP == 1023

\* i64::MAX = 2^I64_BITS - 1
I64_BITS == 63

F(k, s, m) == [k |-> k, s |-> s, m |-> m]

NAN == F("nan", 1, 0)

INFINITY == F("inf", 1, 0)

NEG_INFINITY == F("inf", -1, 0)

F64_MAX == F("max", 1, 0)

Fin(s, m) == F("fin", s, m)

Big(s, e) == IF e > F64_MAX_EXP THEN F("inf", s, 0) ELSE F("big", s, e)

ZERO == Fin(1, 0)

ONE == Fin(1, SCALE)

TWO == Fin(1, 2 * SCALE)

NEG_HALF == Fin(-1, SCALE \div 2)

is_nan(a) == a.k = "nan"

is_infinite(a) == a.k = "inf"

IsZero(a) == a.k = "fin" /\ a.m = 0

abs(a) == IF a.k = "nan" THEN a ELSE F(a.k, 1, a.m)

copysign(a, b) == IF a.k = "nan" THEN a ELSE F(a.k, b.s, a.m)

Neg(a) == IF a.k = "nan" THEN a ELSE F(a.k, -a.s, a.m)

\* f64::MAX is an integer, so its floor is itself; floor is used nowhere else
floor(a) == IF a.k = "fin" THEN Fin(a.s, (a.m \div SCALE) * SCALE) ELSE a

\* the position of a value that is not NaN on the number line: its kind first
\* (every "fin" is below every "big", these below f64::MAX, that below
\* infinity), then its magnitude
Rank(a) ==
  LET kind == CASE a.k = "fin" -> 0 [] a.k = "big" -> 1
                [] a.k = "max" -> 2 [] a.k = "inf" -> 3
  IN  <<a.s * kind, a.s * a.m>>

Less(a, b) ==
  \/ Rank(a)[1] < Rank(b)[1]
  \/ Rank(a)[1] = Rank(b)[1] /\ Rank(a)[2] < Rank(b)[2]

\* Ge with the comparison made strict: x > f64::MAX.floor()
Ge_strict(a, b) == a.k # "nan" /\ b.k # "nan" /\ Less(b, a)

\* a >= b (false when either is NaN)
Ge(a, b) == a.k # "nan" /\ b.k # "nan" /\ ~Less(a, b)

\* round(a * b / SCALE) for magnitudes a, b, without leaving 32 bits
MulMag(a, b) ==
  LET ah == a \div SPLIT
      al == a % SPLIT
      bh == b \div SPLIT
      bl == b % SPLIT
      cross == ah * bl + al * bh
      low == (cross % SPLIT) * SPLIT + al * bl
  IN  ah * bh + cross \div SPLIT + (low + SCALE \div 2) \div SCALE

\* the exponent j of a "fin" power of two 2^j, for the three the code multiplies by
Log2(a) == CASE a.m = SCALE \div 2 -> -1 [] a.m = SCALE -> 0 [] a.m = 2 * SCALE -> 1

\* a * b
Mul(a, b) ==
  IF a.k = "nan" \/ b.k = "nan" THEN NAN
  ELSE IF a.k = "inf" \/ b.k = "inf"
       THEN IF IsZero(a) \/ IsZero(b) THEN NAN ELSE F("inf", a.s * b.s, 0)
  ELSE IF a.k = "fin" /\ b.k = "fin" THEN Fin(a.s * b.s, MulMag(a.m, b.m))
  ELSE IF IsZero(a) \/ IsZero(b) THEN Fin(a.s * b.s, 0)
  ELSE LET small == IF a.k = "fin" THEN a ELSE b
           large == IF a.k = "fin" THEN b ELSE a
       IN  CASE large.k = "big" -> Big(a.s * b.s, large.m + Log2(small))
             [] large.k = "max" /\ Log2(small) = 1 -> F("inf", a.s * b.s, 0)
             [] large.k = "max" /\ Log2(small) = 0 -> F("max", a.s * b.s, 0)

\* a + b
Add(a, b) ==
  IF a.k = "nan" \/ b.k = "nan" THEN NAN
  ELSE IF a.k = "inf" /\ b.k = "inf" THEN (IF a.s = b.s THEN a ELSE NAN)
  ELSE IF a.k = "inf" THEN a
  ELSE IF b.k = "inf" THEN b
  ELSE IF a.k = "fin" /\ b.k = "fin"
       THEN LET v == a.s * a.m + b.s * b.m
            IN  IF v = 0 THEN Fin(IF a.s = -1 /\ b.s = -1 THEN -1 ELSE 1, 0)
                ELSE IF v < 0 THEN Fin(-1, -v) ELSE Fin(1, v)
  ELSE IF a.k = "fin" THEN b
  ELSE IF b.k = "fin" THEN a
  ELSE CASE a.k = b.k /\ a.m = b.m /\ a.s # b.s -> ZERO
         [] a.k = "big" /\ b.k = "big" /\ a.m = b.m /\ a.s = b.s -> Big(a.s, a.m + 1)
         [] a.k = "max" /\ b.k = "max" /\ a.s = b.s -> F("inf", a.s, 0)

\* a - b
Sub(a, b) == Add(a, Neg(b))

\* a.mul_add(b, c) = a * b + c; the product is rounded to the grid before the
\* sum, a difference from the single rounding that is below the grid's step
mul_add(a, b, c) == Add(Mul(a, b), c)

\* a.round(): the nearest integer, ties away from zero
round(a) ==
  IF a.k = "fin" THEN Fin(a.s, ((a.m + SCALE \div 2) \div SCALE) * SCALE) ELSE a

\* a as i64 & 3i64: the cast saturates (and sends NaN to 0), so every value of
\* at least 2^63 becomes i64::MAX, whose low bits are 11
CastAnd3(a) ==
  CASE a.k = "nan" -> 0
    [] a.k = "fin" -> IF a.s = 1 THEN (a.m \div SCALE) % 4
                                 ELSE (4 - ((a.m \div SCALE) % 4)) % 4
    [] a.k = "big" -> IF a.s = 1 /\ a.m >= I64_BITS THEN 3 ELSE 0
    [] a.k \in {"max", "inf"} -> IF a.s = 1 THEN 3 ELSE 0

\* a == b on f64: NaN equals nothing, -0.0 equals +0.0
NumEq(a, b) ==
  /\ a.k # "nan" /\ b.k # "nan"
  /\ \/ a = b
     \/ IsZero(a) /\ IsZero(b)

--------------------------------------------------------------------------
(* src/src/utils.rs *)

RECURSIVE fold(_, _, _)
fold(acc, x, a) ==
  IF a = <<>> THEN acc ELSE fold(Add(Mul(acc, x), Head(a)), x, Tail(a))

\* eval_poly with the fold started from 1.0
eval_poly_from_one(x, a) == fold(ONE, x, a)

eval_poly(x, a) == fold(ZERO, x, a)

\* approx_eq(a, b, tol) for a tolerance of tol / SCALE
approx_eq(a, b, tol) ==
  IF is_infinite(a) \/ is_infinite(b) THEN FALSE
  ELSE LET d == abs(Sub(a, b)) IN d.k = "fin" /\ d.m <= tol

--------------------------------------------------------------------------
(* src/src/triangle.rs *)

PI == Fin(1, 314159265)

SINPI_COEFFS ==
  << Fin(-1, 2172), Fin(1, 46628), Fin(-1, 737043),
     Fin(1, 8214589), Fin(-1, 59926453), Fin(1, 255016404) >>

COSPI_COEFFS ==
  << Fin(-1, 10369), Fin(1, 192949), Fin(-1, 2580689),
     Fin(1, 23533063), Fin(-1, 133526277), Fin(1, 405871213) >>

sinpi_kernel(x) ==
  LET x_square == Mul(x, x)
      x_forth == Mul(x_square, x_square)
      r == eval_poly(x, SINPI_COEFFS)
      tmp == mul_add(Fin(-1, 516771278), x_square, mul_add(x_forth, r, Fin(1, 0)))
  IN  mul_add(PI, x, Mul(x, tmp))

cospi_kernel(x) ==
  LET x_square == Mul(x, x)
      r == Mul(x_square, eval_poly(x_square, COSPI_COEFFS))
      a_x_square == Mul(Fin(1, 493480220), x_square)
      a_x_square_lo ==
        mul_add(Fin(1, 0), x_square, mul_add(Fin(1, 493480220), x_square, Neg(a_x_square)))
      w == Sub(ONE, a_x_square)
  IN  Add(w, mul_add(x_square, r, Sub(Sub(Sub(ONE, w), a_x_square), a_x_square_lo)))

\* What a call leaves behind: how it ended, the values it returned, and, when it
\* went through the range reduction, n = round(2|x|), the reduced argument rx,
\* the dispatch index q and the kernels it called (each with argument rx)
Returned(value) ==
  [status |-> "return", value |-> value, reduced |-> FALSE,
   n |-> NAN, rx |-> NAN, q |-> -1, kernels |-> {}]

Panicked ==
  [status |-> "panic", value |-> <<>>, reduced |-> FALSE,
   n |-> NAN, rx |-> NAN, q |-> -1, kernels |-> {}]

Dispatched(value, n, rx, q, kernels) ==
  [status |-> "return", value |-> value, reduced |-> TRUE,
   n |-> n, rx |-> rx, q |-> q, kernels |-> kernels]

\* sinpi with the infinity check left out
sinpi_unchecked(_x) ==
  IF is_nan(_x) THEN Returned(<<NAN>>)
  ELSE LET x == abs(_x) IN
       IF Ge(x, floor(F64_MAX)) THEN Returned(<<copysign(ZERO, _x)>>)
       ELSE LET n == round(Mul(TWO, x))
                rx == mul_add(NEG_HALF, n, x)
                q == CastAnd3(n)
                res == CASE q = 0 -> sinpi_kernel(rx)
                         [] q = 1 -> cospi_kernel(rx)
                         [] q = 2 -> Sub(ZERO, sinpi_kernel(rx))
                         [] OTHER -> Sub(ZERO, cospi_kernel(rx))
            IN  Dispatched(<<copysign(res, _x)>>, n, rx, q,
                           IF q \in {0, 2} THEN {"sinpi_kernel"} ELSE {"cospi_kernel"})

sinpi(_x) ==
  IF is_nan(_x) THEN Returned(<<NAN>>)
  ELSE IF is_infinite(_x) THEN Panicked
  ELSE LET x == abs(_x) IN
       IF Ge(x, floor(F64_MAX)) THEN Returned(<<copysign(ZERO, _x)>>)
       ELSE LET n == round(Mul(TWO, x))
                rx == mul_add(NEG_HALF, n, x)
                q == CastAnd3(n)
                res == CASE q = 0 -> sinpi_kernel(rx)
                         [] q = 1 -> cospi_kernel(rx)
                         [] q = 2 -> Sub(ZERO, sinpi_kernel(rx))
                         [] OTHER -> Sub(ZERO, cospi_kernel(rx))
            IN  Dispatched(<<copysign(res, _x)>>, n, rx, q,
                           IF q \in {0, 2} THEN {"sinpi_kernel"} ELSE {"cospi_kernel"})

\* cospi with NaN rejected together with the infinities (a check of !is_finite)
cospi_nan_rejected(_x) ==
  IF is_nan(_x) \/ is_infinite(_x) THEN Panicked
  ELSE LET x == abs(_x) IN
       IF Ge(x, floor(F64_MAX)) THEN Returned(<<copysign(ONE, _x)>>)
       ELSE LET n == round(Mul(TWO, x))
                rx == mul_add(NEG_HALF, n, x)
                q == CastAnd3(n)
                res == CASE q = 0 -> cospi_kernel(rx)
                         [] q = 1 -> Sub(ZERO, sinpi_kernel(rx))
                         [] q = 2 -> Sub(ZERO, cospi_kernel(rx))
                         [] OTHER -> sinpi_kernel(rx)
            IN  Dispatched(<<res>>, n, rx, q,
                           IF q \in {0, 2} THEN {"cospi_kernel"} ELSE {"sinpi_kernel"})

cospi(_x) ==
  IF is_nan(_x) THEN Returned(<<NAN>>)
  ELSE IF is_infinite(_x) THEN Panicked
  ELSE LET x == abs(_x) IN
       IF Ge(x, floor(F64_MAX)) THEN Returned(<<copysign(ONE, _x)>>)
       ELSE LET n == round(Mul(TWO, x))
                rx == mul_add(NEG_HALF, n, x)
                q == CastAnd3(n)
                res == CASE q = 0 -> cospi_kernel(rx)
                         [] q = 1 -> Sub(ZERO, sinpi_kernel(rx))
                         [] q = 2 -> Sub(ZERO, cospi_kernel(rx))
                         [] OTHER -> sinpi_kernel(rx)
            IN  Dispatched(<<res>>, n, rx, q,
                           IF q \in {0, 2} THEN {"cospi_kernel"} ELSE {"sinpi_kernel"})

\* sincospi with the cosine of row 1 left unnegated
sincospi_row1(_x) ==
  IF is_nan(_x) THEN Returned(<<NAN, NAN>>)
  ELSE IF is_infinite(_x) THEN Panicked
  ELSE LET x == abs(_x) IN
       IF Ge(x, floor(F64_MAX)) THEN Returned(<<copysign(ZERO, _x), copysign(ONE, _x)>>)
       ELSE LET n == round(Mul(TWO, x))
                rx == mul_add(NEG_HALF, n, x)
                q == CastAnd3(n)
                si == sinpi_kernel(rx)
                co == cospi_kernel(rx)
                res == CASE q = 0 -> <<copysign(si, _x), co>>
                         [] q = 1 -> <<copysign(co, _x), si>>
                         [] q = 2 -> <<copysign(Sub(ZERO, si), _x), Sub(ZERO, co)>>
                         [] OTHER -> <<copysign(Sub(ZERO, co), _x), si>>
            IN  Dispatched(res, n, rx, q, {"sinpi_kernel", "cospi_kernel"})

sincospi(_x) ==
  IF is_nan(_x) THEN Returned(<<NAN, NAN>>)
  ELSE IF is_infinite(_x) THEN Panicked
  ELSE LET x == abs(_x) IN
       IF Ge(x, floor(F64_MAX)) THEN Returned(<<copysign(ZERO, _x), copysign(ONE, _x)>>)
       ELSE LET n == round(Mul(TWO, x))
                rx == mul_add(NEG_HALF, n, x)
                q == CastAnd3(n)
                si == sinpi_kernel(rx)
                co == cospi_kernel(rx)
                res == CASE q = 0 -> <<copysign(si, _x), co>>
                         [] q = 1 -> <<copysign(co, _x), Sub(ZERO, si)>>
                         [] q = 2 -> <<copysign(Sub(ZERO, si), _x), Sub(ZERO, co)>>
                         [] OTHER -> <<copysign(Sub(ZERO, co), _x), si>>
            IN  Dispatched(res, n, rx, q, {"sinpi_kernel", "cospi_kernel"})

--------------------------------------------------------------------------
(* The calls: a caller invokes one function on one input, reads what it      *)
(* returned, and drops it                                                    *)

\* the largest input of the grid is MaxK / 8
MaxK == 20

\* the longest coefficient slice handed to eval_poly
MaxLen == 3

STEP == SCALE \div 8

SIXTH == Fin(1, 16666667)

THIRD == Fin(1, 33333333)

\* 0, 1/8, 2/8, ..., 1/6, 1/3, of either sign: every quadrant, both signs of
\* rx, the ties of round, and the arguments of the known values
SmallInputs ==
  LET pos == {Fin(1, k * STEP) : k \in 0..MaxK} \cup {SIXTH, THIRD}
  IN  pos \cup {Neg(v) : v \in pos}

\* 2^61 (2x fits an i64), 2^62 (2x = 2^63 does not), 2^1023 (2x overflows) and
\* f64::MAX, of either sign
LargeInputs ==
  LET pos == {Big(1, 61), Big(1, 62), Big(1, F64_MAX_EXP), F64_MAX}
  IN  pos \cup {Neg(v) : v \in pos}

FiniteInputs == SmallInputs \cup LargeInputs

Inputs == FiniteInputs \cup {NAN, INFINITY, NEG_INFINITY}

PolyPoints ==
  {Fin(s, m) : s \in {1, -1}, m \in {0, SCALE \div 2, SCALE, 2 * SCALE}}
    \cup {NAN, INFINITY, NEG_INFINITY}

PolyCoeffs == {Fin(s, m) : s \in {1, -1}, m \in {0, SCALE \div 2, SCALE}}

RECURSIVE SeqsUpTo(_, _)
SeqsUpTo(S, len) ==
  IF len = 0 THEN {<<>>}
  ELSE LET shorter == SeqsUpTo(S, len - 1)
       IN  shorter \cup {Append(a, c) : a \in {b \in shorter : Len(b) = len - 1}, c \in S}

Init ==
  /\ fn = "none"
  /\ arg = ZERO
  /\ arr = <<>>
  /\ ret = Returned(<<>>)

CallSinpi ==
  \E v \in Inputs :
    /\ fn = "none"
    /\ fn' = "sinpi"
    /\ arg' = v
    /\ arr' = <<>>
    /\ ret' = sinpi(v)

CallCospi ==
  \E v \in Inputs :
    /\ fn = "none"
    /\ fn' = "cospi"
    /\ arg' = v
    /\ arr' = <<>>
    /\ ret' = cospi(v)

CallSincospi ==
  \E v \in Inputs :
    /\ fn = "none"
    /\ fn' = "sincospi"
    /\ arg' = v
    /\ arr' = <<>>
    /\ ret' = sincospi(v)

CallEvalPoly ==
  \E v \in PolyPoints, a \in SeqsUpTo(PolyCoeffs, MaxLen) :
    /\ fn = "none"
    /\ fn' = "eval_poly"
    /\ arg' = v
    /\ arr' = a
    /\ ret' = Returned(<<eval_poly(v, a)>>)

\* the caller is done with the result; the functions keep no state, so the
\* next call starts from the same state as the first
Drop ==
  /\ fn # "none"
  /\ fn' = "none"
  /\ arg' = ZERO
  /\ arr' = <<>>
  /\ ret' = Returned(<<>>)

Next == CallSinpi \/ CallCospi \/ CallSincospi \/ CallEvalPoly \/ Drop

Spec == Init /\ [][Next]_vars

--------------------------------------------------------------------------
(* Properties *)

\* The model's arithmetic stays within 1e-7 of the f64 arithmetic on the inputs
\* above, and the tolerance 1e-9 of the known values is below the grid's step:
\* two values count as equal up to rounding when they differ by at most 1e-6,
\* so that a difference found here is a difference of the f64 results too
TOLERANCE == 10^2

\* tol = 1.0e-3, the tolerance of the repository's own tests
TEST_TOLERANCE == 10^5

Trig == {"sinpi", "cospi", "sincospi"}

\* the same f64 value: equal as numbers, or both NaN
SameValue(a, b) == NumEq(a, b) \/ (is_nan(a) /\ is_nan(b))

\* finite and below the saturation threshold floor(f64::MAX) = f64::MAX
BelowThreshold(a) == a.k \in {"fin", "big"}

\* n mod 4 for an integer n >= 0 (-1 when n is no integer); a "big" n is a
\* multiple of 4
Mod4(n) ==
  CASE n.k = "fin" -> (n.m \div SCALE) % 4
    [] n.k = "big" -> 0
    [] OTHER -> -1

\* x^j with x^0 = 1 for every x, as powi and pow have it
RECURSIVE Pow(_, _)
Pow(x, j) == IF j = 0 THEN ONE ELSE Mul(Pow(x, j - 1), x)

RECURSIVE DirectFrom(_, _, _)
DirectFrom(x, a, i) ==
  LET term == Mul(a[i], Pow(x, Len(a) - i))
  IN  IF i = 1 THEN term ELSE Add(DirectFrom(x, a, i - 1), term)

\* c0 * x^(k-1) + c1 * x^(k-2) + ... + c_{k-1}, term by term
DirectPoly(x, a) == IF a = <<>> THEN ZERO ELSE DirectFrom(x, a, Len(a))

\* the dispatch table of the specification: row q of sinpi and of cospi
SinRow(q, rx) ==
  CASE q = 0 -> sinpi_kernel(rx)
    [] q = 1 -> cospi_kernel(rx)
    [] q = 2 -> Neg(sinpi_kernel(rx))
    [] q = 3 -> Neg(cospi_kernel(rx))

CosRow(q, rx) ==
  CASE q = 0 -> cospi_kernel(rx)
    [] q = 1 -> Neg(sinpi_kernel(rx))
    [] q = 2 -> Neg(cospi_kernel(rx))
    [] q = 3 -> sinpi_kernel(rx)

\* C1: for every finite input, sincospi returns exactly the pair of what sinpi
\* and cospi return, in every quadrant and in the saturation branch.
C1_SincospiIsPair ==
  (fn = "sincospi" /\ arg \in FiniteInputs) =>
    /\ ret.status = "return"
    /\ sinpi(arg).status = "return"
    /\ cospi(arg).status = "return"
    /\ ret.value = <<sinpi(arg).value[1], cospi(arg).value[1]>>

\* C1 witness: a negative input of quadrant 1, where the sine is a sign-copied
\* cosine kernel and the cosine a negated sine kernel, both non-zero.
C1_Witness ==
  /\ fn = "sincospi" /\ arg = Fin(-1, 5 * STEP)
  /\ ret.q = 1 /\ ret.rx = Fin(1, STEP)
  /\ ret.value = <<Fin(-1, 92387954), Fin(-1, 38268147)>>
  /\ ret.value = <<sinpi(arg).value[1], cospi(arg).value[1]>>

\* C2 (as claimed): sinpi(x + 2) and cospi(x + 2) equal sinpi(x) and cospi(x)
\* up to rounding, for every finite x well below the threshold, of either sign
\* (here: to within the 1e-3 of the repository's tests, which two results of
\* opposite sign and magnitude above 1e-3 do not meet).
C2_Periodic ==
  (fn \in {"sinpi", "cospi"} /\ arg \in SmallInputs) =>
    LET shifted == Add(arg, TWO)
        other == IF fn = "sinpi" THEN sinpi(shifted) ELSE cospi(shifted)
    IN  approx_eq(ret.value[1], other.value[1], TEST_TOLERANCE)

\* C3 (as claimed): cospi(-x) equals cospi(x) for every finite x, at or above
\* the saturation threshold too.
C3_CospiEven ==
  (fn = "cospi" /\ arg \in FiniteInputs) =>
    SameValue(ret.value[1], cospi(Neg(arg)).value[1])

\* C4 (as claimed): sinpi(0) = 0, sinpi(0.5) = 1, sinpi(1) = 0, cospi(0) = 1,
\* cospi(1) = -1, sinpi(1/6) = 0.5, sinpi(1/3) = 0.8660254037844387 and
\* cospi(1/3) = 0.5, each within the tolerance.
C4_KnownValues ==
  LET near(v) == approx_eq(ret.value[1], v, TOLERANCE)
  IN  /\ (fn = "sinpi" /\ arg = ZERO) => near(ZERO)
      /\ (fn = "sinpi" /\ arg = Fin(1, SCALE \div 2)) => near(ONE)
      /\ (fn = "sinpi" /\ arg = ONE) => near(ZERO)
      /\ (fn = "cospi" /\ arg = ZERO) => near(ONE)
      /\ (fn = "cospi" /\ arg = ONE) => near(Neg(ONE))
      /\ (fn = "sinpi" /\ arg = SIXTH) => near(Fin(1, SCALE \div 2))
      /\ (fn = "sinpi" /\ arg = THIRD) => near(Fin(1, 86602540))
      /\ (fn = "cospi" /\ arg = THIRD) => near(Fin(1, SCALE \div 2))

\* C5: on +infinity and -infinity each of sinpi, cospi and sincospi panics: it
\* returns no value and reaches neither the range reduction nor a kernel.
C5_InfinityPanics ==
  (fn \in Trig /\ is_infinite(arg)) =>
    /\ ret.status = "panic"
    /\ ret.value = <<>>
    /\ ~ret.reduced
    /\ ret.kernels = {}

\* C5 witness: sinpi has been called on -infinity and has panicked.
C5_Witness ==
  fn = "sinpi" /\ arg = NEG_INFINITY /\ ret.status = "panic"

\* C6: on NaN, sinpi and cospi return NaN and sincospi returns (NaN, NaN); each
\* returns normally, without the panic of the domain error.
C6_NanPropagates ==
  (fn \in Trig /\ is_nan(arg)) =>
    /\ ret.status = "return"
    /\ Len(ret.value) = (IF fn = "sincospi" THEN 2 ELSE 1)
    /\ \A i \in DOMAIN ret.value : is_nan(ret.value[i])

\* C6 witness: cospi has been called on NaN and has returned NaN.
C6_Witness ==
  fn = "cospi" /\ arg = NAN /\ ret.status = "return" /\ ret.value = <<NAN>>

C9_QuadrantDispatch ==
  (fn \in Trig /\ BelowThreshold(arg)) =>
    /\ ret.reduced
    /\ ret.n = round(Mul(TWO, abs(arg)))
    /\ ret.rx = mul_add(NEG_HALF, ret.n, abs(arg))
    /\ ret.q = Mod4(ret.n)
    /\ fn = "sinpi" => SameValue(ret.value[1], copysign(SinRow(ret.q, ret.rx), arg))
    /\ fn = "cospi" => SameValue(ret.value[1], CosRow(ret.q, ret.rx))

\* C10 (as claimed): for every finite x below the threshold the reduced
\* argument handed to the kernels is finite and within [-0.25, 0.25].
C10_ReducedInRange ==
  (fn \in Trig /\ BelowThreshold(arg)) =>
    /\ ret.reduced
    /\ ret.kernels # {}
    /\ ret.rx.k = "fin"
    /\ ret.rx.m <= SCALE \div 4

====
